---- MODULE Spec2Model ----
(***************************************************************************)
(* Model of src/modules/downloader.js (class DownloaderModule).            *)
(*                                                                         *)
(* One behaviour is one call of a public method of the module: one of the  *)
(* five command handlers, _downloadAndSendMedia or _convertMiles.  Every   *)
(* awaited operation (processing notice, API fetch, media fetch, outbound  *)
(* send) is one step whose outcome the environment chooses.                *)
(*                                                                         *)
(* Text is a sequence of tokens (a coarse-grained character sequence):     *)
(* concatenation is \o, "contains" is contiguous sub-sequence, "begins     *)
(* with" is the first token.  The failure glyph U+274C is the token        *)
(* FailGlyph.                                                              *)
(***************************************************************************)
EXTENDS Integers, Sequences, FiniteSets, TLC

(***************************************************************************)
(* Bounds of the model.                                                    *)
(***************************************************************************)
MaxVideos == 2      \* longest media.videos list of a Twitter response
MaxUrls == 2        \* longest urls list of a Facebook response
MaxItems == 2       \* longest media list of an Instagram response
MaxMedia == 1       \* longest data.media list of a Twitter response

(***************************************************************************)
(* JavaScript values that reach _convertMiles.                             *)
(***************************************************************************)
JsNum(n) == [t |-> "number", n |-> n, s |-> ""]
JsStr(s) == [t |-> "string", n |-> 0, s |-> s]
JsBool(b) == [t |-> "boolean", n |-> IF b THEN 1 ELSE 0, s |-> ""]
JsNull == [t |-> "null", n |-> 0, s |-> ""]
JsUndefined == [t |-> "undefined", n |-> 0, s |-> ""]

\* Integer inputs.  None of them is a rounding tie of toFixed(1), whose
\* result on a tie depends on the binary representation of the quotient.
NumberSamples ==
    {-1, 0, 7, 999, 1000, 1049, 1500, 12345, 999949, 999999,
     1000000, 2500000, 123456789}

\* String inputs and what Number() makes of them (NaN: nan = TRUE).
StringSamples == {"", " ", "7", "1500", "2500000", "abc", "12k"}

StringToNumber(s) ==
    CASE s = "" -> [nan |-> FALSE, n |-> 0]
      [] s = " " -> [nan |-> FALSE, n |-> 0]
      [] s = "7" -> [nan |-> FALSE, n |-> 7]
      [] s = "1500" -> [nan |-> FALSE, n |-> 1500]
      [] s = "2500000" -> [nan |-> FALSE, n |-> 2500000]
      [] OTHER -> [nan |-> TRUE, n |-> 0]

ConvertInputs ==
    {JsNum(n) : n \in NumberSamples} \cup {JsStr(s) : s \in StringSamples}
        \cup {JsBool(TRUE), JsBool(FALSE), JsNull, JsUndefined}

\* Number(num), line 68.
Number(v) ==
    CASE v.t = "number" -> [nan |-> FALSE, n |-> v.n]
      [] v.t = "string" -> StringToNumber(v.s)
      [] v.t = "boolean" -> [nan |-> FALSE, n |-> v.n]
      [] v.t = "null" -> [nan |-> FALSE, n |-> 0]
      [] OTHER -> [nan |-> TRUE, n |-> 0]

Thousand == 1000
Million == 1000000

\* (number / unit).toFixed(1) for a non-negative integer that is no tie.
ToFixed1(number, unit) ==
    LET tenths == (10 * number + unit \div 2) \div unit
    IN  ToString(tenths \div 10) \o "." \o ToString(tenths % 10)

\* _convertMiles, lines 67-73.
ConvertMiles(num) ==
    LET number == Number(num)
    IN  IF number.nan THEN num
        ELSE IF number.n < Thousand THEN JsStr(ToString(number.n))
        ELSE IF number.n < Million
            THEN JsStr(ToFixed1(number.n, Thousand) \o "k")
        ELSE JsStr(ToFixed1(number.n, Million) \o "M")

(***************************************************************************)
(* Text.                                                                   *)
(***************************************************************************)
FailGlyph == "[X]"                  \* the glyph U+274C
undefined == <<"%undefined%">>      \* an absent string-valued field

\* !x for a string-valued x
Falsy(x) == x = undefined \/ x = <<>>

\* a || b
OrElse(a, b) == IF Falsy(a) THEN b ELSE a

\* ${x} in a template literal, x string-valued or absent
Template(x) == IF x = undefined THEN <<"undefined">> ELSE x

\* ${v} in a template literal, v a JavaScript value
TemplateValue(v) ==
    CASE v.t = "number" -> <<ToString(v.n)>>
      [] v.t = "string" -> <<v.s>>
      [] v.t = "boolean" -> <<IF v.n = 1 THEN "true" ELSE "false">>
      [] v.t = "null" -> <<"null">>
      [] OTHER -> <<"undefined">>

StartsWith(text, token) == Len(text) > 0 /\ text[1] = token

Contains(text, part) ==
    \E i \in 0..(Len(text) - Len(part)) :
        \A j \in 1..Len(part) : text[i + j] = part[j]

\* url.includes('/stories/'), line 194
Includes(url, token) == \E i \in 1..Len(url) : url[i] = token

\* description.split('https://')[0], line 302
SplitHead(text, sep) ==
    IF Includes(text, sep)
        THEN SubSeq(text, 1, (CHOOSE i \in 1..Len(text) :
                 text[i] = sep /\ \A j \in 1..(i - 1) : text[j] # sep) - 1)
        ELSE text

Last(seq) == seq[Len(seq)]

Return(text) == [kind |-> "return", str |-> text]
Throw(message) == [kind |-> "throw", str |-> message]
Pending == [kind |-> "none", str |-> <<>>]

(***************************************************************************)
(* The module's fixed data.                                                *)
(***************************************************************************)
Handlers == {"tiktok", "instagram", "soundcloud", "facebook", "twitter"}

\* this.apiBaseUrl, line 18
apiBaseUrl == "https://delirius-apiofc.vercel.app/download"

\* the 'Please provide ...' strings, lines 144, 184, 208, 241, 281
Guidance(h) ==
    CASE h = "tiktok" -> <<"Please provide a TikTok URL.">>
      [] h = "instagram" -> <<"Please provide an Instagram URL.">>
      [] h = "soundcloud" -> <<"Please provide a SoundCloud URL.">>
      [] h = "facebook" -> <<"Please provide a Facebook URL.">>
      [] h = "twitter" -> <<"Please provide a Twitter/X URL.">>

\* an Instagram handler that never routes to the stories endpoint
EndpointMut(h, url) ==
    CASE h = "tiktok" -> "tiktok"
      [] h = "instagram" -> "instagram"
      [] h = "soundcloud" -> "soundcloud"
      [] h = "facebook" -> "facebook"
      [] h = "twitter" -> "twitterv2"

\* the endpoint slug each handler passes to _fetchDownload
Endpoint(h, url) ==
    CASE h = "tiktok" -> "tiktok"
      [] h = "instagram" ->
            IF Includes(url, "/stories/") THEN "igstories" ELSE "instagram"
      [] h = "soundcloud" -> "soundcloud"
      [] h = "facebook" -> "facebook"
      [] h = "twitter" -> "twitterv2"

\* downloadTwitter without its try/catch, downloadTikTok with one
CatchesMut(h) == h \in {"facebook", "tiktok"}

\* the handlers whose body after the notice is wrapped in try/catch
Catches(h) == h \in {"facebook", "twitter"}

\* catch blocks whose text lacks the glyph
CatchTextMut(h, message) ==
    IF h = "facebook"
        THEN <<"Failed to download Facebook video: ">> \o message
        ELSE <<"Failed to download Twitter media: ">> \o message

\* the catch blocks of downloadFacebook and downloadTwitter
CatchText(h, message) ==
    IF h = "facebook"
        THEN <<FailGlyph, " Failed to download Facebook video: ">> \o message
        ELSE <<FailGlyph, " Failed to download Twitter media: ">> \o message

\* how an error raised in the body of handler h leaves the handler
HandlerError(h, message) ==
    IF Catches(h) THEN Return(CatchText(h, message)) ELSE Throw(message)

\* encodeURIComponent(url), line 82 (percent-encoding, token by token)
EncodeURIComponent(url) == [i \in 1..Len(url) |-> "%" \o url[i]]

\* apiUrl, line 82
ApiUrl(endpoint, url) ==
    <<apiBaseUrl, "/", endpoint, "?url=">> \o EncodeURIComponent(url)

\* params[0]
Param0(p) == IF Len(p) > 0 THEN p[1] ELSE undefined

(***************************************************************************)
(* Inputs: the parameter lists of a command and the JSON the aggregation   *)
(* API may answer with.                                                    *)
(***************************************************************************)
UrlSamples(h) ==
    CASE h = "tiktok" -> {<<"https://tiktok.com/x">>}
      [] h = "instagram" ->
            {<<"https://instagram.com", "/p/", "abc">>,
             <<"https://instagram.com", "/stories/", "user/1">>,
             <<"https://instagram.com", "/stories">>}
      [] h = "soundcloud" -> {<<"https://soundcloud.com/t">>}
      [] h = "facebook" -> {<<"https://facebook.com/v">>}
      [] h = "twitter" -> {<<"https://x.com/s/1">>}

ParamSamples(h) ==
    {<<>>, << <<>> >>} \cup {<<u>> : u \in UrlSamples(h)}
        \cup {<<u, <<"extra">> >> : u \in UrlSamples(h)}

\* engagement counts of a response
MetricSamples == {JsNum(999), JsNum(1500), JsNull}

NoData == [hasData |-> FALSE]

SeqsUpTo(S, n) == UNION {[1..k -> S] : k \in 0..n}

TikTokResponses ==
    {NoData} \cup
    [hasData : {TRUE}, repro : MetricSamples, like : MetricSamples,
     share : MetricSamples, comment : MetricSamples,
     download : MetricSamples,
     hd : {undefined, <<"http://m/hd.mp4">>},
     org : {undefined, <<"http://m/org.mp4">>}]

InstagramItems ==
    {[type |-> "image", url |-> <<"http://ig/1.jpg">>],
     [type |-> "video", url |-> <<"http://ig/2.mp4">>]}

InstagramResponses ==
    {NoData} \cup [hasData : {TRUE}, data : SeqsUpTo(InstagramItems, MaxItems)]

SoundCloudResponses ==
    {NoData} \cup
    [hasData : {TRUE}, playbacks : MetricSamples, likes : MetricSamples,
     comments : MetricSamples,
     download : {undefined, <<"http://sc/t.mp3">>}]

FacebookEntries ==
    [hd : {undefined, <<"http://fb/hd.mp4">>},
     sd : {undefined, <<"http://fb/sd.mp4">>}]

\* result.urls: absent, a truthy value that is no array, or an array
FacebookUrls ==
    {[kind |-> "missing", list |-> <<>>], [kind |-> "notlist", list |-> <<>>]}
        \cup [kind : {"list"}, list : SeqsUpTo(FacebookEntries, MaxUrls)]

FacebookResponses ==
    [urls : FacebookUrls, title : {undefined, <<"A title">>}]

VideoUrls == {<<"a">>, <<"b">>}

\* media.videos: absent or an array of {url}
TwitterVideos ==
    {[present |-> FALSE, list |-> <<>>]}
        \cup [present : {TRUE}, list : SeqsUpTo(VideoUrls, MaxVideos)]

TwitterMedia ==
    [type : {"video", "photo", "gif", "poll"}, videos : TwitterVideos,
     image : {undefined, <<"http://tw/i.jpg">>}]

\* data.media: absent or an array
TwitterMediaLists ==
    {[present |-> FALSE, list |-> <<>>]}
        \cup [present : {TRUE}, list : SeqsUpTo(TwitterMedia, MaxMedia)]

TwitterResponses ==
    {NoData} \cup
    [hasData : {TRUE}, media : TwitterMediaLists,
     description : {<<"look ", "https://", "t.co/z">>},
     view : MetricSamples, favorite : {JsNum(1500)}, retweet : {JsNull}]

Responses(h) ==
    CASE h = "tiktok" -> TikTokResponses
      [] h = "instagram" -> InstagramResponses
      [] h = "soundcloud" -> SoundCloudResponses
      [] h = "facebook" -> FacebookResponses
      [] h = "twitter" -> TwitterResponses

\* HTTP statuses for which response.ok is false
FailStatuses == {404, 500}

\* an HTTP status for which response.ok is true
OkStatus == 200

(***************************************************************************)
(* Captions and media selection of the handlers.                           *)
(***************************************************************************)
Metric(label, value) == <<label>> \o TemplateValue(ConvertMiles(value))

\* lines 157-169
TikTokCaption(data) ==
    <<"TikTok Download", "*Name:* A", "*Username:* a", "*Duration:* 10s">>
        \o Metric("*Plays:* ", data.repro) \o Metric("*Likes:* ", data.like)
        \o Metric("*Shares:* ", data.share)
        \o Metric("*Comments:* ", data.comment)
        \o Metric("*Downloads:* ", data.download)
        \o <<"Music Info", "*Music:* T", "*Author:* M", "*Duration:* 5s">>

\* line 171
TikTokMediaUrl(data) == OrElse(data.hd, data.org)

\* lines 221-226
SoundCloudCaption(res) ==
    <<"Soundcloud Download", "*Title:* T", "*Artist:* M">>
        \o Metric("*Plays:* ", res.playbacks)
        \o Metric("*Likes:* ", res.likes)
        \o Metric("*Comments:* ", res.comments)

\* lines 198-201
RECURSIVE InstagramLines(_, _)
InstagramLines(media, index) ==
    IF index > Len(media) THEN <<>>
    ELSE <<"*Media ", ToString(index), " [", media[index].type, "]:* ">>
            \o media[index].url \o <<"\n">>
            \o InstagramLines(media, index + 1)

InstagramText(media) == <<"*I N S T A G R A M*">> \o InstagramLines(media, 1)

\* line 253
FacebookNoUrls(urls) == urls.kind # "list" \/ Len(urls.list) = 0

\* lines 257-258
FacebookCaption(result) ==
    <<"Facebook video Download", "*Title:* ">>
        \o OrElse(result.title, <<"No title available">>)

\* a selection that reads both qualities from the first entry
FacebookMediaUrlMut(list) == OrElse(list[1].hd, list[1].sd)

\* line 261: result.urls[0].hd || result.urls[1]?.sd
FacebookMediaUrl(list) ==
    OrElse(list[1].hd, IF Len(list) >= 2 THEN list[2].sd ELSE undefined)

\* lines 300-305
TwitterCaption(data) ==
    <<"Twitter Download", "*Author:* @u", "*Description:* ">>
        \o SplitHead(data.description, "https://")
        \o Metric("*Views:* ", data.view)
        \o Metric("*Likes:* ", data.favorite)
        \o Metric("*Retweets:* ", data.retweet)

\* a selection that takes the first variant of a video
TwitterSelectMut(media) ==
    IF media.type \in {"video", "gif"} /\ media.videos.present
            /\ Len(media.videos.list) > 0
        THEN [type |-> "video", url |-> media.videos.list[1]]
    ELSE IF media.type = "photo" /\ ~Falsy(media.image)
        THEN [type |-> "image", url |-> media.image]
    ELSE [type |-> "none", url |-> undefined]

\* lines 308-324: which URL is relayed, and as what
TwitterSelect(media) ==
    IF media.type = "video" /\ media.videos.present
            /\ Len(media.videos.list) > 0
        THEN [type |-> "video", url |-> Last(media.videos.list)]
    ELSE IF media.type = "photo" /\ ~Falsy(media.image)
        THEN [type |-> "image", url |-> media.image]
    ELSE IF media.type = "gif" /\ media.videos.present
            /\ Len(media.videos.list) > 0
        THEN [type |-> "video", url |-> media.videos.list[1]]
    ELSE [type |-> "none", url |-> undefined]

(***************************************************************************)
(* The Media Relay's pure parts.                                           *)
(***************************************************************************)
Kinds == {"video", "audio", "image"}

\* the kinds a caller may pass to _downloadAndSendMedia
RelayTypes == Kinds \cup {"document", "sticker"}

\* a final else that sends the bytes as an image
MessageKindMut(type) == IF type \in Kinds THEN type ELSE "image"

\* lines 106-126: the field the bytes are sent under, or the throw
MessageKind(type) == IF type \in Kinds THEN type ELSE "unsupported"

Mimetype(type) ==
    CASE type = "video" -> "video/mp4"
      [] type = "audio" -> "audio/mpeg"
      [] type = "image" -> "image/jpeg"

\* the payload handed to bot.sendMessage
Message(type, caption, mediaUrl) ==
    [kind |-> MessageKind(type), bytesOf |-> mediaUrl, caption |-> caption,
     mimetype |-> Mimetype(MessageKind(type))]

\* line 132
Fallback(caption, mediaUrl) ==
    caption \o <<"\n\n*Failed to send media, here's the URL instead:* ">>
        \o Template(mediaUrl)

\* a relay without its catch block
RelayCatchMut(message, caption, mediaUrl) == Throw(message)

\* lines 130-133: the catch block of _downloadAndSendMedia
RelayCatch(message, caption, mediaUrl) == Return(Fallback(caption, mediaUrl))

(***************************************************************************)
(* State.                                                                  *)
(***************************************************************************)
VARIABLES
    handler,        \* the method that was called, "none" before the call
    pc,             \* where the call stands
    params,         \* the handler's params argument
    fromMe,         \* msg.key.fromMe
    num,            \* the argument of a direct _convertMiles call
    out,            \* what that call returned
    result,         \* the JSON _fetchDownload returned
    apiCalls,       \* requests made by _fetchDownload
    apiOutcome,     \* how the API request ended
    apiStatus,      \* response.status of the API request, 0 if none came
    notices,        \* processing notices sent through bot.sock.sendMessage
    noticeOutcome,  \* how the processing notice ended
    mediaFetches,   \* URLs fetched by _downloadAndSendMedia
    mediaOutcome,   \* how the media fetch ended
    sendOutcome,    \* how bot.sendMessage ended
    sent,           \* payloads delivered by bot.sendMessage
    relayCalls,     \* the calls of _downloadAndSendMedia
    relayRet,       \* what _downloadAndSendMedia returned
    ret,            \* what the called handler (or relay) returned or threw
    retOrigin       \* the statement that produced ret

vars ==
    <<handler, pc, params, fromMe, num, out, result, apiCalls, apiOutcome,
      apiStatus, notices, noticeOutcome, mediaFetches, mediaOutcome,
      sendOutcome, sent, relayCalls, relayRet, ret, retOrigin>>

Init ==
    /\ handler = "none"
    /\ pc = "idle"
    /\ params = <<>>
    /\ fromMe = FALSE
    /\ num = JsUndefined
    /\ out = JsUndefined
    /\ result = NoData
    /\ apiCalls = <<>>
    /\ apiOutcome = "none"
    /\ apiStatus = 0
    /\ notices = 0
    /\ noticeOutcome = "none"
    /\ mediaFetches = <<>>
    /\ mediaOutcome = "none"
    /\ sendOutcome = "none"
    /\ sent = <<>>
    /\ relayCalls = <<>>
    /\ relayRet = Pending
    /\ ret = Pending
    /\ retOrigin = "none"

(***************************************************************************)
(* Steps shared by the handlers.                                           *)
(***************************************************************************)
\* a return or throw statement of the called method
Finish(value, origin) ==
    /\ ret' = value
    /\ retOrigin' = origin
    /\ pc' = "done"

\* an error raised inside the body of the running handler
Raise(message) ==
    Finish(HandlerError(handler, message),
           IF Catches(handler) THEN "catch" ELSE "propagated")

\* a call of _downloadAndSendMedia(msg, mediaUrl, caption, type)
StartRelay(mediaUrl, caption, type) ==
    /\ relayCalls' = Append(relayCalls,
            [mediaUrl |-> mediaUrl, caption |-> caption, type |-> type])
    /\ pc' = "relay_fetch"

\* a guard that tests for the empty string only
UrlMissingMut(url) == url = <<>>

\* if (!url), lines 144, 184, 208, 241, 281
UrlMissing(url) == Falsy(url)

\* the first lines of every handler: const url = params[0];
\* if (!url) return 'Please provide ...'; then on to the notice or the fetch
Enter(h) ==
    /\ pc = "idle"
    /\ \E p \in ParamSamples(h), f \in BOOLEAN :
        /\ handler' = h
        /\ params' = p
        /\ fromMe' = f
        /\ IF UrlMissing(Param0(p))
            THEN Finish(Return(Guidance(h)), "guidance")
            ELSE /\ pc' = IF f THEN "notice" ELSE "api"
                 /\ UNCHANGED <<ret, retOrigin>>
    /\ UNCHANGED <<num, out, result, apiCalls, apiOutcome, apiStatus, notices,
                   noticeOutcome, mediaFetches, mediaOutcome, sendOutcome,
                   sent, relayCalls, relayRet>>

downloadTikTok == Enter("tiktok")
downloadInstagram == Enter("instagram")
downloadSoundCloud == Enter("soundcloud")
downloadFacebook == Enter("facebook")
downloadTwitter == Enter("twitter")

\* if (msg.key.fromMe) await this.bot.sock.sendMessage(...): outside every
\* try block, so a rejected send leaves the handler as a throw
ProcessingNotice ==
    /\ pc = "notice"
    /\ notices' = notices + 1
    /\ \E o \in {"ok", "fail"} :
        /\ noticeOutcome' = o
        /\ IF o = "ok"
            THEN pc' = "api" /\ UNCHANGED <<ret, retOrigin>>
            ELSE Finish(Throw(<<"notice send failed">>), "propagated")
    /\ UNCHANGED <<handler, params, fromMe, num, out, result, apiCalls,
                   apiOutcome, apiStatus, mediaFetches, mediaOutcome,
                   sendOutcome, sent, relayCalls, relayRet>>

\* _fetchDownload(endpoint, url), lines 81-88, and where its error goes
FetchDownload ==
    /\ pc = "api"
    /\ LET url == Param0(params)
           endpoint == Endpoint(handler, url)
       IN  apiCalls' = Append(apiCalls,
                [endpoint |-> endpoint, apiUrl |-> ApiUrl(endpoint, url)])
    /\ \/ /\ apiOutcome' = "ok"
          /\ apiStatus' = OkStatus
          /\ \E r \in Responses(handler) : result' = r
          /\ pc' = "normalize"
          /\ UNCHANGED <<ret, retOrigin>>
       \/ /\ apiOutcome' = "status"
          /\ \E st \in FailStatuses :
                /\ apiStatus' = st
                /\ Raise(<<"API request failed with status ", ToString(st)>>)
          /\ UNCHANGED result
       \/ /\ apiOutcome' = "throw"
          /\ Raise(<<"fetch failed">>)
          /\ UNCHANGED <<result, apiStatus>>
    /\ UNCHANGED <<handler, params, fromMe, num, out, notices, noticeOutcome,
                   mediaFetches, mediaOutcome, sendOutcome, sent, relayCalls,
                   relayRet>>

TypeErrorText == <<"Cannot read properties of undefined">>

RelayUnchanged ==
    UNCHANGED <<handler, params, fromMe, num, out, result, apiCalls,
                apiOutcome, apiStatus, notices, noticeOutcome, mediaFetches,
                mediaOutcome, sendOutcome, sent, relayRet>>

\* downloadTikTok after the fetch, lines 155-172
TikTokNormalize ==
    /\ pc = "normalize"
    /\ handler = "tiktok"
    /\ IF ~result.hasData
        THEN Raise(TypeErrorText) /\ UNCHANGED relayCalls
        ELSE /\ StartRelay(TikTokMediaUrl(result), TikTokCaption(result),
                           "video")
             /\ UNCHANGED <<ret, retOrigin>>
    /\ RelayUnchanged

\* downloadInstagram after the fetch, lines 196-203
InstagramNormalize ==
    /\ pc = "normalize"
    /\ handler = "instagram"
    /\ IF ~result.hasData
        THEN Raise(TypeErrorText)
        ELSE Finish(Return(InstagramText(result.data)), "listing")
    /\ UNCHANGED relayCalls
    /\ RelayUnchanged

\* downloadSoundCloud after the fetch, lines 219-228
SoundCloudNormalize ==
    /\ pc = "normalize"
    /\ handler = "soundcloud"
    /\ IF ~result.hasData
        THEN Raise(TypeErrorText) /\ UNCHANGED relayCalls
        ELSE /\ StartRelay(result.download, SoundCloudCaption(result),
                           "audio")
             /\ UNCHANGED <<ret, retOrigin>>
    /\ RelayUnchanged

\* downloadFacebook after the fetch, lines 253-266
FacebookNormalize ==
    /\ pc = "normalize"
    /\ handler = "facebook"
    /\ IF FacebookNoUrls(result.urls)
        THEN /\ Raise(<<"Invalid API response: ", "No media URLs found">>)
             /\ UNCHANGED relayCalls
        ELSE LET mediaUrl == FacebookMediaUrl(result.urls.list)
             IN  IF Falsy(mediaUrl)
                    THEN /\ Raise(<<"No valid media URL",
                                    " found in API response">>)
                         /\ UNCHANGED relayCalls
                    ELSE /\ StartRelay(mediaUrl, FacebookCaption(result),
                                       "video")
                         /\ UNCHANGED <<ret, retOrigin>>
    /\ RelayUnchanged

\* downloadTwitter after the fetch, lines 293-324
TwitterNormalize ==
    /\ pc = "normalize"
    /\ handler = "twitter"
    /\ IF ~result.hasData
        THEN Raise(TypeErrorText) /\ UNCHANGED relayCalls
        ELSE IF ~result.media.present \/ Len(result.media.list) = 0
        THEN /\ Finish(Return(<<"This tweet does not contain any media.">>),
                       "nomedia")
             /\ UNCHANGED relayCalls
        ELSE LET choice == TwitterSelect(result.media.list[1])
             IN  IF choice.type = "none"
                    THEN /\ Finish(Return(<<"Unsupported media type",
                                            " or media not available.">>),
                                   "unsupported")
                         /\ UNCHANGED relayCalls
                    ELSE /\ StartRelay(choice.url, TwitterCaption(result),
                                       choice.type)
                         /\ UNCHANGED <<ret, retOrigin>>
    /\ RelayUnchanged

(***************************************************************************)
(* _downloadAndSendMedia, lines 98-134.                                    *)
(***************************************************************************)
RelayUrlSamples == {undefined, <<"http://m/x.mp4">>}
RelayCaptionSamples == {<<>>, <<"a caption">>}

\* fetch() of a URL that is absent or empty rejects
MediaOutcomes(mediaUrl) ==
    IF Falsy(mediaUrl) THEN {"throw"} ELSE {"ok", "status", "throw"}

\* a direct call of the relay, with any content kind
CallRelay ==
    /\ pc = "idle"
    /\ handler' = "relay"
    /\ \E u \in RelayUrlSamples, c \in RelayCaptionSamples, t \in RelayTypes :
            StartRelay(u, c, t)
    /\ UNCHANGED <<params, fromMe, num, out, result, apiCalls, apiOutcome,
                   apiStatus, notices, noticeOutcome, mediaFetches,
                   mediaOutcome, sendOutcome, sent, relayRet, ret, retOrigin>>

\* lines 100-103: fetch the media and read its bytes
RelayFetch ==
    /\ pc = "relay_fetch"
    /\ LET a == Last(relayCalls)
       IN  /\ mediaFetches' = Append(mediaFetches, a.mediaUrl)
           /\ \E o \in MediaOutcomes(a.mediaUrl) :
                /\ mediaOutcome' = o
                /\ IF o = "ok"
                    THEN pc' = "relay_send" /\ UNCHANGED relayRet
                    ELSE /\ relayRet' = RelayCatch(<<"Failed to fetch media">>,
                                                   a.caption, a.mediaUrl)
                         /\ pc' = "relay_return"
    /\ UNCHANGED <<handler, params, fromMe, num, out, result, apiCalls,
                   apiOutcome, apiStatus, notices, noticeOutcome, sendOutcome,
                   sent, relayCalls, ret, retOrigin>>

\* lines 105-129: build the payload for the content kind and send it
RelaySend ==
    /\ pc = "relay_send"
    /\ LET a == Last(relayCalls)
       IN  IF MessageKind(a.type) = "unsupported"
            THEN /\ relayRet' = RelayCatch(<<"Unsupported media type">>,
                                           a.caption, a.mediaUrl)
                 /\ UNCHANGED <<sendOutcome, sent>>
            ELSE \E o \in {"ok", "fail"} :
                    /\ sendOutcome' = o
                    /\ IF o = "ok"
                        THEN /\ sent' = Append(sent,
                                    Message(a.type, a.caption, a.mediaUrl))
                             /\ relayRet' = Return(<<>>)
                        ELSE /\ relayRet' = RelayCatch(<<"send failed">>,
                                    a.caption, a.mediaUrl)
                             /\ UNCHANGED sent
    /\ pc' = "relay_return"
    /\ UNCHANGED <<handler, params, fromMe, num, out, result, apiCalls,
                   apiOutcome, apiStatus, notices, noticeOutcome,
                   mediaFetches, mediaOutcome, relayCalls, ret, retOrigin>>

\* what a handler does with the value the relay hands back:
\* await this._downloadAndSendMedia(...); return '';
\* lines 172-173, 228-229, 266-267, 310-311, 314-315, 319-320
AfterRelay(h, r) ==
    IF r.kind = "throw" THEN HandlerError(h, r.str) ELSE Return(<<>>)

\* the relay returns to its caller
RelayReturn ==
    /\ pc = "relay_return"
    /\ IF handler = "relay"
        THEN Finish(relayRet, "relay")
        ELSE Finish(AfterRelay(handler, relayRet),
                    IF relayRet.kind # "throw" THEN "sent"
                    ELSE IF Catches(handler) THEN "catch" ELSE "propagated")
    /\ UNCHANGED <<handler, params, fromMe, num, out, result, apiCalls,
                   apiOutcome, apiStatus, notices, noticeOutcome,
                   mediaFetches, mediaOutcome, sendOutcome, sent, relayCalls,
                   relayRet>>

\* a direct call of _convertMiles(num)
CallConvertMiles ==
    /\ pc = "idle"
    /\ handler' = "convertMiles"
    /\ \E v \in ConvertInputs :
        /\ num' = v
        /\ out' = ConvertMiles(v)
    /\ pc' = "done"
    /\ UNCHANGED <<params, fromMe, result, apiCalls, apiOutcome, apiStatus,
                   notices, noticeOutcome, mediaFetches, mediaOutcome,
                   sendOutcome, sent, relayCalls, relayRet, ret, retOrigin>>

Next ==
    \/ downloadTikTok
    \/ downloadInstagram
    \/ downloadSoundCloud
    \/ downloadFacebook
    \/ downloadTwitter
    \/ ProcessingNotice
    \/ FetchDownload
    \/ TikTokNormalize
    \/ InstagramNormalize
    \/ SoundCloudNormalize
    \/ FacebookNormalize
    \/ TwitterNormalize
    \/ CallRelay
    \/ RelayFetch
    \/ RelaySend
    \/ RelayReturn
    \/ CallConvertMiles

Spec == Init /\ [][Next]_vars

(***************************************************************************)
(* Properties.                                                             *)
(***************************************************************************)
NonEmptyText(text) == \E i \in 1..Len(text) : text[i] # ""

RelayingHandlers == {"tiktok", "soundcloud", "facebook", "twitter"}

NoNetwork ==
    /\ apiCalls = <<>>
    /\ mediaFetches = <<>>
    /\ notices = 0
    /\ sent = <<>>

\* the relay has been called and has handed its value back
RelayReturned == relayCalls # <<>> /\ pc \in {"relay_return", "done"}

RelayFailed == mediaOutcome \in {"status", "throw"} \/ sendOutcome = "fail"

IsFallback(text, call) ==
    /\ NonEmptyText(text)
    /\ Contains(text, call.caption)
    /\ Contains(text, Template(call.mediaUrl))

\* C1: every handler called with an empty parameter list returns a
\* non-empty guidance string and makes no network call: no API fetch, no
\* media fetch, no processing notice, no outbound send, whatever fromMe is.
C1_EmptyParamsGuidance ==
    (handler \in Handlers /\ params = <<>>) =>
        /\ pc = "done"
        /\ ret.kind = "return"
        /\ NonEmptyText(ret.str)
        /\ retOrigin = "guidance"
        /\ NoNetwork
        /\ relayCalls = <<>>

C1_Witness ==
    /\ pc = "done"
    /\ handler = "twitter"
    /\ params = <<>>
    /\ fromMe
    /\ ret.kind = "return"

\* C2: the relay called with a kind in {video, audio, image} never raises;
\* when the media fetch throws or answers non-2xx, or the outbound send
\* fails, it returns a string containing the caption and the raw mediaUrl;
\* it returns the empty string only when the outbound send completed.
C2_RelayNeverRaises ==
    (relayCalls # <<>> /\ Last(relayCalls).type \in Kinds) =>
        /\ relayRet.kind # "throw"
        /\ RelayReturned => relayRet.kind = "return"
        /\ (RelayReturned /\ RelayFailed) =>
                IsFallback(relayRet.str, Last(relayCalls))
        /\ relayRet = Return(<<>>) =>
                /\ sendOutcome = "ok"
                /\ Len(sent) = 1
                /\ sent[1].bytesOf = Last(relayCalls).mediaUrl
                /\ sent[1].caption = Last(relayCalls).caption
                /\ sent[1].kind = Last(relayCalls).type

C2_Witness ==
    /\ handler = "relay"
    /\ pc = "done"
    /\ Last(relayCalls).type = "audio"
    /\ Last(relayCalls).caption = <<"a caption">>
    /\ mediaOutcome = "ok"
    /\ sendOutcome = "fail"
    /\ IsFallback(ret.str, Last(relayCalls))

\* C3 as stated: the relay called with a content kind outside
\* {video, audio, image} raises an error to its caller instead of
\* returning a string.
C3_UnsupportedKindRaises ==
    (handler = "relay" /\ pc = "done"
        /\ Last(relayCalls).type \notin Kinds) => ret.kind = "throw"

\* C3 amended: the relay called with a content kind outside
\* {video, audio, image} does not raise: it sends nothing and returns the
\* fallback string containing the caption and the raw mediaUrl.
C3_UnsupportedKindFallsBack ==
    (relayCalls # <<>> /\ Last(relayCalls).type \notin Kinds) =>
        /\ relayRet.kind # "throw"
        /\ sent = <<>>
        /\ sendOutcome = "none"
        /\ RelayReturned =>
                /\ relayRet.kind = "return"
                /\ IsFallback(relayRet.str, Last(relayCalls))
        /\ pc = "done" => ret = relayRet

C3_Witness ==
    /\ handler = "relay"
    /\ pc = "done"
    /\ Last(relayCalls).type = "document"
    /\ Last(relayCalls).mediaUrl = <<"http://m/x.mp4">>
    /\ mediaOutcome = "ok"
    /\ ret.kind = "return"

\* C4: for the relaying handlers (TikTok, SoundCloud, Facebook, Twitter) an
\* invocation that returns the empty string has delivered a media payload
\* through the outbound send, and when the media fetch or the send fails
\* the handler returns the relay's caption-plus-URL fallback.
C4_EmptyMeansDelivered ==
    (handler \in RelayingHandlers /\ pc = "done") =>
        /\ ret = Return(<<>>) => (Len(sent) = 1 /\ sendOutcome = "ok")
        /\ (relayCalls # <<>> /\ RelayFailed) =>
                /\ ret.kind = "return"
                /\ IsFallback(ret.str, Last(relayCalls))

\* Twitter's first media item once the handler has chosen what to do
TwitterChosen ==
    /\ handler = "twitter"
    /\ apiOutcome = "ok"
    /\ pc # "normalize"
    /\ result.hasData
    /\ result.media.present
    /\ Len(result.media.list) > 0

RelayedOnce(mediaUrl, type) ==
    /\ Len(relayCalls) = 1
    /\ relayCalls[1].mediaUrl = mediaUrl
    /\ relayCalls[1].type = type

HasVideos(media) == media.videos.present /\ Len(media.videos.list) > 0

\* C5 as stated: for type 'video' or 'gif' with a non-empty videos list
\* downloadTwitter relays the URL of the LAST element as 'video'; for
\* 'photo' with an image it relays the image URL as 'image'.
C5_LastVariantForVideoAndGif ==
    TwitterChosen =>
        LET media == result.media.list[1]
        IN  /\ (media.type \in {"video", "gif"} /\ HasVideos(media)) =>
                    RelayedOnce(Last(media.videos.list), "video")
            /\ (media.type = "photo" /\ ~Falsy(media.image)) =>
                    RelayedOnce(media.image, "image")

\* C5 amended: for type 'video' with a non-empty videos list
\* downloadTwitter relays the URL of the last element as 'video'; for type
\* 'gif' with a non-empty videos list it relays the URL of the FIRST
\* element as 'video'; for 'photo' with an image it relays the image URL
\* as 'image'.
C5_LastForVideoFirstForGif ==
    TwitterChosen =>
        LET media == result.media.list[1]
        IN  /\ (media.type = "video" /\ HasVideos(media)) =>
                    RelayedOnce(Last(media.videos.list), "video")
            /\ (media.type = "gif" /\ HasVideos(media)) =>
                    RelayedOnce(media.videos.list[1], "video")
            /\ (media.type = "photo" /\ ~Falsy(media.image)) =>
                    RelayedOnce(media.image, "image")

C5_Witness ==
    /\ TwitterChosen
    /\ result.media.list[1].type = "video"
    /\ result.media.list[1].videos.list = << <<"a">>, <<"b">> >>
    /\ RelayedOnce(<<"b">>, "video")
    /\ pc = "done"

\* the return statements by which a handler reports that no media could
\* be delivered
FailureOrigins == {"catch", "nomedia", "unsupported"}

\* C6 as stated: every string a handler returns to report that no media
\* could be delivered (API failure, missing media field, tweet without
\* media, unsupported media type) begins with the failure glyph.
C6_EveryFailureHasGlyph ==
    (handler \in Handlers /\ pc = "done" /\ ret.kind = "return"
        /\ retOrigin \in FailureOrigins) => StartsWith(ret.str, FailGlyph)

\* C6 amended: every string produced by the catch blocks of
\* downloadFacebook and downloadTwitter (API failure, Facebook's missing
\* media URLs, any error raised in the guarded body) begins with the
\* failure glyph; Twitter's two soft results and the relay's link fallback
\* do not begin with it.
C6_CatchTextHasGlyph ==
    /\ (handler \in Handlers /\ pc = "done" /\ retOrigin = "catch") =>
            /\ ret.kind = "return"
            /\ StartsWith(ret.str, FailGlyph)
            /\ handler \in {"facebook", "twitter"}
    /\ (handler \in Handlers /\ pc = "done"
            /\ retOrigin \in {"nomedia", "unsupported"}) =>
            /\ ret.kind = "return"
            /\ NonEmptyText(ret.str)
            /\ ~StartsWith(ret.str, FailGlyph)
            /\ handler = "twitter"
    /\ (RelayReturned /\ relayRet.kind = "return" /\ relayRet.str # <<>>) =>
            ~StartsWith(relayRet.str, FailGlyph)

C6_Witness ==
    /\ handler = "twitter"
    /\ pc = "done"
    /\ retOrigin = "catch"
    /\ apiOutcome = "ok"
    /\ ~result.hasData
    /\ StartsWith(ret.str, FailGlyph)

\* C7: when the API answers with a non-success status, _fetchDownload
\* raises an error carrying the status after exactly one request, no media
\* fetch and no outbound media send happens; downloadFacebook and
\* downloadTwitter catch it and return a failure string, downloadTikTok,
\* downloadSoundCloud and downloadInstagram let it propagate.
C7_ApiStatusError ==
    apiOutcome = "status" =>
        LET error == <<"API request failed with status ",
                       ToString(apiStatus)>>
        IN  /\ apiStatus \in FailStatuses
            /\ Len(apiCalls) = 1
            /\ mediaFetches = <<>>
            /\ relayCalls = <<>>
            /\ sent = <<>>
            /\ pc = "done"
            /\ handler \in {"facebook", "twitter"} =>
                    /\ ret.kind = "return"
                    /\ NonEmptyText(ret.str)
                    /\ Contains(ret.str, error)
            /\ handler \in {"tiktok", "soundcloud", "instagram"} =>
                    ret = Throw(error)

C7_Witness ==
    /\ apiOutcome = "status"
    /\ apiStatus = 500
    /\ handler = "soundcloud"
    /\ pc = "done"
    /\ ret.kind = "throw"
    /\ fromMe
    /\ notices = 1

\* inputs the statement counts as numeric: numbers and strings of digits
DigitStrings == {"7", "1500", "2500000"}

IsNumeric(v) == v.t = "number" \/ (v.t = "string" /\ v.s \in DigitStrings)

NumericValue(v) == IF v.t = "number" THEN v.n ELSE StringToNumber(v.s).n

\* C8: _convertMiles renders n < 1000 as n itself, 1000 <= n < 1,000,000
\* as n/1000 with one decimal and 'k', n >= 1,000,000 as n/1,000,000 with
\* one decimal and 'M', and returns every non-numeric input (null, the
\* empty string, a boolean, a word) unchanged.
C8_ConvertMiles ==
    (handler = "convertMiles" /\ pc = "done") =>
        IF IsNumeric(num)
            THEN LET n == NumericValue(num)
                 IN  out = JsStr(IF n < 1000 THEN ToString(n)
                                 ELSE IF n < 1000000
                                    THEN ToFixed1(n, 1000) \o "k"
                                 ELSE ToFixed1(n, 1000000) \o "M")
            ELSE out = num

InstagramUrlGiven ==
    /\ handler = "instagram"
    /\ ~Falsy(Param0(params))

FacebookChosen ==
    /\ handler = "facebook"
    /\ apiOutcome = "ok"
    /\ pc # "normalize"

NoUrlsText(text) ==
    StartsWith(text, FailGlyph) /\ Contains(text, <<"No media URLs found">>)

NoValidUrlText(text) ==
    StartsWith(text, FailGlyph) /\ Contains(text, <<"No valid media URL">>)

HdUrls(list) == {list[i].hd : i \in 1..Len(list)} \ {undefined, <<>>}
SdUrls(list) == {list[i].sd : i \in 1..Len(list)} \ {undefined, <<>>}

\* C10 as stated: with urls missing, not a list or empty downloadFacebook
\* returns a glyph-led 'No media URLs found' string without a relay call;
\* otherwise it makes exactly one relay call of kind 'video', with the hd
\* URL when the response has one, with the sd URL whenever the response
\* has an sd URL but no hd URL, and reports 'No valid media URL' only when
\* the list carries neither.
C10_HdElseSd ==
    FacebookChosen =>
        IF FacebookNoUrls(result.urls)
            THEN relayCalls = <<>> /\ (pc = "done" => NoUrlsText(ret.str))
        ELSE LET list == result.urls.list
             IN  /\ HdUrls(list) # {} =>
                        /\ Len(relayCalls) = 1
                        /\ relayCalls[1].mediaUrl \in HdUrls(list)
                        /\ relayCalls[1].type = "video"
                 /\ (HdUrls(list) = {} /\ SdUrls(list) # {}) =>
                        /\ Len(relayCalls) = 1
                        /\ relayCalls[1].mediaUrl \in SdUrls(list)
                        /\ relayCalls[1].type = "video"
                 /\ (HdUrls(list) = {} /\ SdUrls(list) = {}) =>
                        /\ relayCalls = <<>>
                        /\ pc = "done" => NoValidUrlText(ret.str)

\* C10 amended: with urls missing, not a list or empty downloadFacebook
\* returns a glyph-led 'No media URLs found' string without a relay call;
\* otherwise it makes exactly one relay call of kind 'video' with the hd
\* URL of the FIRST entry when that entry has one, else with the sd URL of
\* the SECOND entry when there is one, and reports 'No valid media URL'
\* when the first entry has no hd URL and the second entry is absent or
\* has no sd URL.
C10_FirstHdElseSecondSd ==
    FacebookChosen =>
        IF FacebookNoUrls(result.urls)
            THEN relayCalls = <<>> /\ (pc = "done" => NoUrlsText(ret.str))
        ELSE LET list == result.urls.list
                 hd == list[1].hd
                 sd == IF Len(list) >= 2 THEN list[2].sd ELSE undefined
             IN  /\ ~Falsy(hd) => RelayedOnce(hd, "video")
                 /\ (Falsy(hd) /\ ~Falsy(sd)) => RelayedOnce(sd, "video")
                 /\ (Falsy(hd) /\ Falsy(sd)) =>
                        /\ relayCalls = <<>>
                        /\ pc = "done" => NoValidUrlText(ret.str)

C10_Witness ==
    /\ FacebookChosen
    /\ pc = "done"
    /\ Len(result.urls.list) = 2
    /\ Falsy(result.urls.list[1].hd)
    /\ RelayedOnce(<<"http://fb/sd.mp4">>, "video")
    /\ Len(sent) = 1

====
